---- MODULE Spec2Model ----
(***************************************************************************)
(* Rotate-and-update webhook receiver.                                     *)
(*                                                                         *)
(* Three revisions of the service are kept in the repository:              *)
(*   "base"  src/index.js:1-178      rotate, reuse the original URL,       *)
(*                                   metafieldsSet                         *)
(*   "r2"    src/unnamed/part_000    rotate, upload to R2, metafieldsSet   *)
(*   "order" src/index.js:180-656    rotate, upload to R2, metafieldsSet,  *)
(*                                   order-edit transaction                *)
(* One revision is deployed at a time (variable revision).  A job is one   *)
(* invocation of processRotateAndUpdateJob; every action below is one      *)
(* run-to-completion step of the Node.js event loop: the HTTP handler, or  *)
(* the continuation of the job after an awaited timer or call settles.     *)
(* Each job keeps a log of what it did to the outside world and of what    *)
(* the outside world answered.                                             *)
(***************************************************************************)
EXTENDS Naturals, Sequences, FiniteSets, TLC

VARIABLES revision, env, now, jobs

vars == <<revision, env, now, jobs>>

----------------------------------------------------------------------------
(* Bounds of the model *)

\* largest value Date.now() returns (abstract milliseconds)
MaxClock == 1
\* largest number of line items orderEditBegin returns
MaxEdges == 2
\* largest number of requests in flight at once
MaxJobs == 2
\* largest length of R2_PUBLIC_BASE_URL, in characters
MaxBaseLen == 3

----------------------------------------------------------------------------
(* Values *)

\* an absent JSON field or unset environment variable, and a present one
None == <<>>
Some(v) == <<v>>

Revisions == {"base", "r2", "order"}

HasStorage == revision \in {"r2", "order"}

EnvVars ==
  {"SHOPIFY_STORE_DOMAIN", "SHOPIFY_ACCESS_TOKEN", "R2_ACCESS_KEY_ID",
   "R2_SECRET_ACCESS_KEY", "R2_BUCKET_NAME", "R2_ENDPOINT", "R2_PUBLIC_BASE_URL"}

\* a fully configured deployment; URLs and names are sequences of tokens
FullEnv ==
  [v \in EnvVars |->
     CASE v = "R2_BUCKET_NAME" -> <<"bkt">>
       [] v = "R2_PUBLIC_BASE_URL" -> <<"https://pub.r2.dev">>
       [] OTHER -> <<v>>]

\* the deployments considered: fully configured, or one variable unset
Envs == {FullEnv} \cup {[FullEnv EXCEPT ![v] = None] : v \in EnvVars}

\* request bodies
Payloads ==
  [image_url : {None, Some(<<"https://x/img.png">>)},
   product_id : {None, Some("42")},
   metafield_namespace : {None, Some("custom")},
   metafield_key : {None, Some("design_link")},
   rotation : {None, Some(0), Some(180)},
   order_id : {None, Some("7001")},
   line_item_id : {None, Some("9001")}]

\* JavaScript truthiness of a field: absent, "" and 0 are falsy
TruthyStr(x) == x # None /\ x # Some("")
TruthyUrl(x) == x # None /\ x # Some(<<>>)
TruthyNum(x) == x # None /\ x # Some(0)
\* an environment variable is truthy unless it is unset or empty
IsSet(v) == env[v] # <<>>

----------------------------------------------------------------------------
(* Program constants *)

\* one attempt too many
maxAttemptsOneMore == 4 + 1
maxAttempts == 4
InitialDelayMs == 3 * 60 * 1000
RetryDelayMs == 60 * 1000
DefaultRotation == 90

----------------------------------------------------------------------------
(* Log events *)

EvRespond(status, body) == [op |-> "respond", status |-> status, body |-> body]
EvSlept(ms) == [op |-> "slept", ms |-> ms]
EvFetch(url) == [op |-> "fetch", url |-> url]
EvPut(bucket, key) == [op |-> "put", bucket |-> bucket, key |-> key]
EvGql(name, variables) == [op |-> name, variables |-> variables]
\* how the fetch-and-rotate attempt logged just before it went
EvAttempt(outcome) == [op |-> "attempted", outcome |-> outcome]
\* how the put logged just before it went
EvStored(outcome) == [op |-> "stored", outcome |-> outcome]
\* Shopify's answer to the GraphQL call logged just before it
EvAnswer(r) == [op |-> "answer", r |-> r]
EvBeginAnswer(r, calculatedOrder) ==
  [op |-> "answer", r |-> r, calculatedOrder |-> calculatedOrder]

GqlOps ==
  {"metafieldsSet", "orderEditBegin", "orderEditSetLineItemProperties",
   "orderEditCommit"}

OutboundOps == {"fetch", "put"} \cup GqlOps

IsOutbound(e) == e.op \in OutboundOps

----------------------------------------------------------------------------
(* Responses of the outside world *)

\* one fetch-and-rotate attempt: the fetch rejects, the status is not ok, the
\* body cannot be read, sharp cannot decode or rotate, or all of it works
AttemptFailures == {"network", "status", "body", "decode"}
AttemptOutcomes == AttemptFailures \cup {"ok"}

\* r2Client.send(cmd) resolves or rejects
PutOutcomes == {"ok", "rejected"}

\* a Shopify GraphQL exchange: the fetch rejects, or an HTTP status with a body
\* that is not JSON, or JSON with no error at all ("clean"), with a non-empty
\* userErrors list, or with a non-empty top-level errors list
GqlBodies == {"clean", "userErrors", "errors", "notjson"}
NetworkError == [net |-> FALSE, ok |-> FALSE, body |-> "none"]
GqlResponses == {NetworkError} \cup [net : {TRUE}, ok : BOOLEAN, body : GqlBodies]

\* the line items of a calculated order: node.id and node.originalLineItem.id
LineItemGid(id) == <<"gid://shopify/LineItem/", id>>
Nodes ==
  {[id |-> "calc-1", orig |-> Some(LineItemGid("9001"))],
   [id |-> "calc-2", orig |-> Some(LineItemGid("9002"))],
   [id |-> "calc-3", orig |-> None]}
EdgeLists == UNION {[1..n -> Nodes] : n \in 0..MaxEdges}
\* orderEditBegin's calculatedOrder: null, or an id and its line items
CalculatedOrders == {None} \cup {Some([id |-> "calc-order", edges |-> es]) : es \in EdgeLists}

----------------------------------------------------------------------------
(* The job: the local variables of one processRotateAndUpdateJob call *)

NewJob(payload) ==
  [payload |-> payload,
   pc |-> "start",
   outcome |-> "running",
   attempt |-> 0,
   lastError |-> None,
   rotatedImageBuffer |-> None,
   finalImageUrl |-> None,
   key |-> None,
   calculatedOrderId |-> None,
   calculatedLineItemId |-> None,
   log |-> <<>>]

Logged(job, e) == [job EXCEPT !.log = Append(@, e)]

\* a job that reports its outcome to the caller when it ends
EndReporting(job, outcome) ==
  Logged([job EXCEPT !.pc = "ended", !.outcome = outcome],
         EvRespond(IF outcome = "done" THEN 200 ELSE 500, outcome))

\* the job function returns or its try block is left: nothing runs after it
End(job, outcome) == [job EXCEPT !.pc = "ended", !.outcome = outcome]

\* a validation that forgets metafield_key
MissingRequiredNoKey(payload) ==
  \/ ~TruthyUrl(payload.image_url)
  \/ ~TruthyStr(payload.product_id)
  \/ ~TruthyStr(payload.metafield_namespace)

\* if (!image_url || !product_id || !metafield_namespace || !metafield_key)
MissingRequired(payload) ==
  \/ ~TruthyUrl(payload.image_url)
  \/ ~TruthyStr(payload.product_id)
  \/ ~TruthyStr(payload.metafield_namespace)
  \/ ~TruthyStr(payload.metafield_key)

\* a guard that looks at the store domain only
MissingShopifyEnvDomainOnly == ~IsSet("SHOPIFY_STORE_DOMAIN")

\* if (!SHOPIFY_STORE_DOMAIN || !SHOPIFY_ACCESS_TOKEN)
MissingShopifyEnv ==
  \/ ~IsSet("SHOPIFY_STORE_DOMAIN")
  \/ ~IsSet("SHOPIFY_ACCESS_TOKEN")

\* a guard that forgets the public base URL
MissingR2EnvNoPublicBase ==
  \E v \in {"R2_ACCESS_KEY_ID", "R2_SECRET_ACCESS_KEY", "R2_BUCKET_NAME",
            "R2_ENDPOINT"} : ~IsSet(v)

\* uploadToR2's guard on the five R2 variables
MissingR2Env ==
  \E v \in {"R2_ACCESS_KEY_ID", "R2_SECRET_ACCESS_KEY", "R2_BUCKET_NAME",
            "R2_ENDPOINT", "R2_PUBLIC_BASE_URL"} : ~IsSet(v)

\* a sleep whose promise is never resolved
SleepNeverResolved(job, pc) == [job EXCEPT !.pc = "suspended"]

\* await sleep(ms): the timer is set and the job suspends
Sleep(job, pc) == [job EXCEPT !.pc = pc]

\* a job that starts fetching at once, without the initial delay
StartJobNoDelay(payload) ==
  LET job == NewJob(payload)
  IN  IF MissingRequired(payload) THEN End(job, "skipped")
      ELSE IF MissingShopifyEnv THEN End(job, "noconfig")
      ELSE [Logged([job EXCEPT !.attempt = 1], EvFetch(payload.image_url[1]))
              EXCEPT !.pc = "attempt"]

\* the part of processRotateAndUpdateJob that runs inside the handler's own
\* step: everything up to the first await
StartJob(payload) ==
  LET job == NewJob(payload)
  IN  IF MissingRequired(payload) THEN End(job, "skipped")
      ELSE IF MissingShopifyEnv THEN End(job, "noconfig")
      ELSE Sleep(job, "sleep3")

\* a handler that answers a body it would not process with a client error
RespondByOutcome(job) ==
  Logged(job, IF job.outcome = "skipped" THEN EvRespond(400, "missing fields")
              ELSE EvRespond(200, "accepted"))

\* res.status(200).json({ status: "accepted" })
Respond(job) == Logged(job, EvRespond(200, "accepted"))

----------------------------------------------------------------------------
(* Shopify GraphQL calls *)

ProductGid(id) == <<"gid://shopify/Product/", id>>
OrderGid(id) == <<"gid://shopify/Order/", id>>

\* the request is sent and the job suspends until it is answered
Call(job, name, variables, pc) ==
  [Logged(job, EvGql(name, variables)) EXCEPT !.pc = pc]

\* shopifyGraphQL(query, variables) of the order revision
shopifyGraphQL(job, name, variables, pc) ==
  IF MissingShopifyEnv THEN End(job, "error") ELSE Call(job, name, variables, pc)

\* shopifyGraphQL throws: the fetch rejected, resp.json() rejected, or !resp.ok
GraphQLThrows(r) == ~r.net \/ r.body = "notjson" \/ ~r.ok

\* the inline fetch of the base and r2 revisions throws: resp.ok is not read
InlineFetchThrows(r) == ~r.net \/ r.body = "notjson"

\* a check that reads the top-level errors only
HasUserErrorsTopLevelOnly(r) == r.body = "errors"

\* data?.data?.<mutation>?.userErrors || data?.errors || [] has length > 0
HasUserErrors(r) == r.body \in {"userErrors", "errors"}

\* a metafield input that still carries the original image URL
MetafieldInputOriginalUrl(job) ==
  [ownerId |-> ProductGid(job.payload.product_id[1]),
   namespace |-> job.payload.metafield_namespace[1],
   key |-> job.payload.metafield_key[1],
   type |-> "single_line_text_field",
   value |-> job.payload.image_url[1]]

\* the metafieldsSet request: setProductMetafield (order revision), or the
\* inline fetch of the base and r2 revisions
MetafieldInput(job) ==
  [ownerId |-> ProductGid(job.payload.product_id[1]),
   namespace |-> job.payload.metafield_namespace[1],
   key |-> job.payload.metafield_key[1],
   type |-> "single_line_text_field",
   value |-> job.finalImageUrl[1]]

SetMetafield(job) ==
  IF revision = "order"
  THEN shopifyGraphQL(job, "metafieldsSet", MetafieldInput(job), "metafield")
  ELSE Call(job, "metafieldsSet", MetafieldInput(job), "metafield")

----------------------------------------------------------------------------
(* Storage *)

DropTrailingSlash(s) ==
  IF Len(s) > 0 /\ s[Len(s)] = "/" THEN SubSeq(s, 1, Len(s) - 1) ELSE s

EndsWith(s, suffix) ==
  /\ Len(suffix) <= Len(s)
  /\ SubSeq(s, Len(s) - Len(suffix) + 1, Len(s)) = suffix

\* `rotated-${product_id}-${Date.now()}.png`
Filename(product_id, t) == <<"rotated-", product_id, "-", ToString(t), ".png">>

\* `rotated/${filename}`
ObjectKey(filename) == <<"rotated", "/">> \o filename

\* a URL that always gets the bucket segment
PublicUrlAlwaysBucket(publicBase, bucket, key) ==
  DropTrailingSlash(publicBase) \o <<"/">> \o bucket \o <<"/">> \o key

\* the URL uploadToR2 returns
PublicUrl(publicBase, bucket, key) ==
  LET base == DropTrailingSlash(publicBase)
      bucketSegment == <<"/">> \o bucket
      baseWithBucket ==
        IF EndsWith(base, bucketSegment) THEN base ELSE base \o bucketSegment
  IN  baseWithBucket \o <<"/">> \o key

\* uploadToR2(buffer, filename) up to its await of r2Client.send(cmd)
uploadToR2(job, filename) ==
  IF MissingR2Env THEN End(job, "error")
  ELSE LET key == ObjectKey(filename)
       IN  [Logged(job, EvPut(env["R2_BUCKET_NAME"], key))
              EXCEPT !.key = Some(key), !.pc = "put"]

----------------------------------------------------------------------------
(* The fetch-and-rotate loop *)

\* rotation || 90
Angle(rotation) == IF TruthyNum(rotation) THEN rotation[1] ELSE DefaultRotation

\* the body of one iteration up to its first await: fetch(image_url)
IssueFetch(job) ==
  [Logged(job, EvFetch(job.payload.image_url[1])) EXCEPT !.pc = "attempt"]

\* the statements after the loop, up to the next await; t is Date.now().
\* The base revision also tests finalImageUrl, which it sets with the buffer.
AfterLoop(job, t) ==
  IF \/ job.rotatedImageBuffer = None
     \/ revision = "base" /\ ~TruthyUrl(job.finalImageUrl)
  THEN End(job, "exhausted")
  ELSE IF HasStorage
       THEN uploadToR2(job, Filename(job.payload.product_id[1], t))
       ELSE SetMetafield(job)

\* a loop whose counter is one variable for all jobs
NextIterationSharedCounter(job, t) ==
  LET top == CHOOSE a \in {jobs[j].attempt : j \in DOMAIN jobs} :
               \A j \in DOMAIN jobs : jobs[j].attempt <= a
      next == [job EXCEPT !.attempt = top + 1]
  IN  IF next.attempt <= maxAttempts THEN IssueFetch(next) ELSE AfterLoop(next, t)

\* attempt++ and the loop test attempt <= maxAttempts
NextIteration(job, t) ==
  LET next == [job EXCEPT !.attempt = @ + 1]
  IN  IF next.attempt <= maxAttempts THEN IssueFetch(next) ELSE AfterLoop(next, t)

\* a retry test that also waits after the last attempt
RetryAllowedInclusive(attempt) == attempt <= maxAttempts

\* if (attempt < maxAttempts) await sleep(60 * 1000)
RetryAllowed(attempt) == attempt < maxAttempts

\* the catch block of an attempt
OnAttemptFailed(job, r, t) ==
  LET failed == [Logged(job, EvAttempt("failed")) EXCEPT !.lastError = Some(r)]
  IN  IF RetryAllowed(job.attempt) THEN Sleep(failed, "sleep1")
      ELSE NextIteration(failed, t)

\* a successful attempt without the break: the loop goes on
OnAttemptOkNoBreak(job, t) ==
  NextIteration(
    [Logged(job, EvAttempt("ok")) EXCEPT
       !.rotatedImageBuffer = Some([angle |-> Angle(job.payload.rotation)]),
       !.finalImageUrl = IF revision = "base" THEN job.payload.image_url ELSE @],
    t)

\* the rest of the try block of an attempt, and the break
OnAttemptOk(job, t) ==
  LET rotated ==
        [Logged(job, EvAttempt("ok")) EXCEPT
           !.rotatedImageBuffer = Some([angle |-> Angle(job.payload.rotation)]),
           !.finalImageUrl =
              IF revision = "base" THEN job.payload.image_url ELSE @]
  IN  AfterLoop(rotated, t)

\* an upload whose failure falls back to the original image URL
OnPutSettledFallback(job, r) ==
  IF r = "ok"
  THEN SetMetafield(
         [Logged(job, EvStored("ok")) EXCEPT
            !.finalImageUrl =
               Some(PublicUrl(env["R2_PUBLIC_BASE_URL"], env["R2_BUCKET_NAME"],
                              job.key[1]))])
  ELSE SetMetafield(
         [Logged(job, EvStored("rejected")) EXCEPT
            !.finalImageUrl = job.payload.image_url])

\* an upload inside the retry loop: its failure leads to the next attempt
OnPutSettledInLoop(job, r) ==
  IF r = "ok"
  THEN SetMetafield(
         [Logged(job, EvStored("ok")) EXCEPT
            !.finalImageUrl =
               Some(PublicUrl(env["R2_PUBLIC_BASE_URL"], env["R2_BUCKET_NAME"],
                              job.key[1]))])
  ELSE NextIteration(
         [Logged(job, EvStored("rejected")) EXCEPT !.rotatedImageBuffer = None],
         now)

\* uploadToR2 after r2Client.send(cmd) settles, and what follows it in the job
OnPutSettled(job, r) ==
  IF r = "ok"
  THEN SetMetafield(
         [Logged(job, EvStored("ok")) EXCEPT
            !.finalImageUrl =
               Some(PublicUrl(env["R2_PUBLIC_BASE_URL"], env["R2_BUCKET_NAME"],
                              job.key[1]))])
  ELSE End(Logged(job, EvStored("rejected")), "error")

----------------------------------------------------------------------------
(* The order-edit transaction: updateOrderLineItemProperty *)

\* a test that looks at the order id only
HasOrderInfoOrderOnly(payload) == TruthyStr(payload.order_id)

\* order_id && line_item_id
HasOrderInfo(payload) ==
  TruthyStr(payload.order_id) /\ TruthyStr(payload.line_item_id)

\* a search that takes the first calculated line item, whatever it stands for
FindCalculatedLineItemFirst(edges, originalLineItemGid) ==
  IF edges = <<>> THEN None ELSE Some(Head(edges).id)

\* the first edge whose node.originalLineItem.id is the original line item
RECURSIVE FindCalculatedLineItem(_, _)
FindCalculatedLineItem(edges, originalLineItemGid) ==
  IF edges = <<>> THEN None
  ELSE IF Head(edges).orig = Some(originalLineItemGid) THEN Some(Head(edges).id)
  ELSE FindCalculatedLineItem(Tail(edges), originalLineItemGid)

\* updateOrderLineItemProperty up to its first await: orderEditBegin
BeginOrderEdit(job) ==
  shopifyGraphQL(job, "orderEditBegin",
                 [id |-> OrderGid(job.payload.order_id[1])], "begin")

\* the job after metafieldsSet is answered
OnMetafieldSettled(job, r) ==
  LET got == Logged(job, EvAnswer(r))
  IN  IF revision = "order"
      THEN IF GraphQLThrows(r) \/ HasUserErrors(r) THEN End(got, "error")
           ELSE IF HasOrderInfo(job.payload) THEN BeginOrderEdit(got)
           ELSE End(got, "done")
      ELSE IF InlineFetchThrows(r) THEN End(got, "error")
           ELSE IF HasUserErrors(r) THEN End(got, "mferrors")
           ELSE End(got, "done")

\* after orderEditBegin is answered: find the line item, set its property
OnBeginSettled(job, r, calculatedOrder) ==
  LET got == Logged(job, EvBeginAnswer(r, calculatedOrder))
  IN  IF GraphQLThrows(r) \/ HasUserErrors(r) THEN End(got, "error")
      ELSE IF calculatedOrder = None THEN End(got, "error")
      ELSE LET found ==
                 FindCalculatedLineItem(calculatedOrder[1].edges,
                                        LineItemGid(job.payload.line_item_id[1]))
               next ==
                 [got EXCEPT !.calculatedOrderId = Some(calculatedOrder[1].id),
                             !.calculatedLineItemId = found]
           IN  IF found = None THEN End(next, "error")
               ELSE shopifyGraphQL(next, "orderEditSetLineItemProperties",
                      [id |-> calculatedOrder[1].id,
                       lineItemId |-> found[1],
                       properties |->
                         <<[name |-> "_tib_design_link_1",
                            value |-> job.finalImageUrl[1]]>>],
                      "setprops")

\* a commit that does not look at the userErrors of the step before it
OnSetPropertiesSettledNoCheck(job, r) ==
  LET got == Logged(job, EvAnswer(r))
  IN  IF GraphQLThrows(r) THEN End(got, "error")
      ELSE shopifyGraphQL(got, "orderEditCommit",
             [id |-> job.calculatedOrderId[1],
              notifyCustomer |-> FALSE,
              staffNote |-> "Updated _tib_design_link_1 via webhook"],
             "commit")

\* after orderEditSetLineItemProperties is answered: commit
OnSetPropertiesSettled(job, r) ==
  LET got == Logged(job, EvAnswer(r))
  IN  IF GraphQLThrows(r) \/ HasUserErrors(r) THEN End(got, "error")
      ELSE shopifyGraphQL(got, "orderEditCommit",
             [id |-> job.calculatedOrderId[1],
              notifyCustomer |-> FALSE,
              staffNote |-> "Updated _tib_design_link_1 via webhook"],
             "commit")

\* a commit whose failure puts the original URL back into the metafield
OnCommitSettledRevert(job, r) ==
  LET got == Logged(job, EvAnswer(r))
  IN  IF GraphQLThrows(r) \/ HasUserErrors(r)
      THEN SetMetafield([got EXCEPT !.finalImageUrl = job.payload.image_url])
      ELSE End(got, "done")

\* after orderEditCommit is answered
OnCommitSettled(job, r) ==
  LET got == Logged(job, EvAnswer(r))
  IN  IF GraphQLThrows(r) \/ HasUserErrors(r) THEN End(got, "error")
      ELSE End(got, "done")

----------------------------------------------------------------------------
(* Actions: one per step of the event loop *)

\* Date.now() when the step reads the clock: it never runs backwards
ClockReads(reads) == IF reads THEN now..MaxClock ELSE {now}

\* a handler that starts no job for a body it has seen before
PostRotateAndUpdateDedup(payload) ==
  /\ jobs' = Append(jobs,
               Respond(IF \E j \in DOMAIN jobs : jobs[j].payload = payload
                       THEN End(NewJob(payload), "duplicate")
                       ELSE StartJob(payload)))
  /\ UNCHANGED <<revision, env, now>>

\* app.post("/rotate-and-update"): start the job, do not await it, respond
PostRotateAndUpdate(payload) ==
  /\ jobs' = Append(jobs, Respond(StartJob(payload)))
  /\ UNCHANGED <<revision, env, now>>

\* the 3-minute timer fires: the loop starts with attempt = 1
InitialSleepDone(i) ==
  /\ jobs[i].pc = "sleep3"
  /\ jobs' = [jobs EXCEPT ![i] =
                NextIteration(Logged(@, EvSlept(InitialDelayMs)), now)]
  /\ UNCHANGED <<revision, env, now>>

\* fetch, arrayBuffer and sharp have settled for the current attempt; a
\* successful attempt of a revision with storage goes on to read Date.now()
AttemptSettled(i, r) ==
  /\ jobs[i].pc = "attempt"
  /\ \E t \in ClockReads(r = "ok" /\ HasStorage) :
       /\ jobs' = [jobs EXCEPT ![i] =
                     IF r = "ok" THEN OnAttemptOk(@, t)
                     ELSE OnAttemptFailed(@, r, t)]
       /\ now' = t
  /\ UNCHANGED <<revision, env>>

\* the 1-minute timer fires: next attempt
RetrySleepDone(i) ==
  /\ jobs[i].pc = "sleep1"
  /\ jobs' = [jobs EXCEPT ![i] =
                NextIteration(Logged(@, EvSlept(RetryDelayMs)), now)]
  /\ UNCHANGED <<revision, env, now>>

\* r2Client.send(cmd) settles
PutSettled(i, r) ==
  /\ jobs[i].pc = "put"
  /\ jobs' = [jobs EXCEPT ![i] = OnPutSettled(@, r)]
  /\ UNCHANGED <<revision, env, now>>

\* metafieldsSet is answered
MetafieldSettled(i, r) ==
  /\ jobs[i].pc = "metafield"
  /\ jobs' = [jobs EXCEPT ![i] = OnMetafieldSettled(@, r)]
  /\ UNCHANGED <<revision, env, now>>

\* orderEditBegin is answered
BeginSettled(i, r, calculatedOrder) ==
  /\ jobs[i].pc = "begin"
  /\ jobs' = [jobs EXCEPT ![i] = OnBeginSettled(@, r, calculatedOrder)]
  /\ UNCHANGED <<revision, env, now>>

\* orderEditSetLineItemProperties is answered
SetPropertiesSettled(i, r) ==
  /\ jobs[i].pc = "setprops"
  /\ jobs' = [jobs EXCEPT ![i] = OnSetPropertiesSettled(@, r)]
  /\ UNCHANGED <<revision, env, now>>

\* orderEditCommit is answered
CommitSettled(i, r) ==
  /\ jobs[i].pc = "commit"
  /\ jobs' = [jobs EXCEPT ![i] = OnCommitSettled(@, r)]
  /\ UNCHANGED <<revision, env, now>>

\* a deployment: a revision and the environment it reads (the base revision
\* reads the two Shopify variables only)
Init ==
  /\ revision \in Revisions
  /\ env \in Envs
  /\ revision = "base" =>
       \A v \in EnvVars \ {"SHOPIFY_STORE_DOMAIN", "SHOPIFY_ACCESS_TOKEN"} : IsSet(v)
  /\ now = 0
  /\ jobs = <<>>

\* the steps of the jobs in flight
JobStep ==
  \/ \E i \in DOMAIN jobs : InitialSleepDone(i)
  \/ \E i \in DOMAIN jobs, r \in AttemptOutcomes : AttemptSettled(i, r)
  \/ \E i \in DOMAIN jobs : RetrySleepDone(i)
  \/ \E i \in DOMAIN jobs, r \in PutOutcomes : PutSettled(i, r)
  \/ \E i \in DOMAIN jobs, r \in GqlResponses : MetafieldSettled(i, r)
  \/ \E i \in DOMAIN jobs, r \in GqlResponses, co \in CalculatedOrders :
       BeginSettled(i, r, co)
  \/ \E i \in DOMAIN jobs, r \in GqlResponses : SetPropertiesSettled(i, r)
  \/ \E i \in DOMAIN jobs, r \in GqlResponses : CommitSettled(i, r)

\* one request, any body, against any deployment
Next ==
  \/ /\ jobs = <<>>
     /\ \E payload \in Payloads : PostRotateAndUpdate(payload)
  \/ JobStep

Spec == Init /\ [][Next]_vars

\* The same program under the event loop's guarantee: a timer that was set
\* fires, and a request that was sent is answered or fails, so a job that can
\* take its next step takes it.
\* The angle has no part in which step follows which, so the requests of
\* this specification leave rotation out.
LivePayloads == {payload \in Payloads : payload.rotation = None}

NextLive ==
  \/ /\ jobs = <<>>
     /\ \E payload \in LivePayloads : PostRotateAndUpdate(payload)
  \/ JobStep

SpecLive == Init /\ [][NextLive]_vars /\ WF_vars(JobStep)

----------------------------------------------------------------------------
(* Several requests in flight. The handler does not await the job, so the
   continuations of different jobs interleave on the event loop in any
   order. Two request bodies, delivered any number of times up to MaxJobs,
   against a fully configured deployment; each outbound call succeeds or
   fails in one way. *)

ConcPayloads ==
  {[image_url |-> Some(<<u>>), product_id |-> Some(id),
    metafield_namespace |-> Some("custom"), metafield_key |-> Some("design_link"),
    rotation |-> None, order_id |-> None, line_item_id |-> None] :
     <<u, id>> \in {<<"https://x/img.png", "42">>, <<"https://y/img.png", "43">>}}

ConcAttemptOutcomes == {"ok", "network"}
ConcGqlResponses ==
  {[net |-> TRUE, ok |-> TRUE, body |-> "clean"],
   [net |-> TRUE, ok |-> TRUE, body |-> "userErrors"]}

\* The clock stands still in these runs: every job reads the same Date.now().
InitConc ==
  /\ revision \in {"r2", "order"}
  /\ env = FullEnv
  /\ now = MaxClock
  /\ jobs = <<>>

ConcStep ==
  \/ \E i \in DOMAIN jobs : InitialSleepDone(i)
  \/ \E i \in DOMAIN jobs, r \in ConcAttemptOutcomes : AttemptSettled(i, r)
  \/ \E i \in DOMAIN jobs : RetrySleepDone(i)
  \/ \E i \in DOMAIN jobs, r \in PutOutcomes : PutSettled(i, r)
  \/ \E i \in DOMAIN jobs, r \in ConcGqlResponses : MetafieldSettled(i, r)

NextConc ==
  \/ /\ Len(jobs) < MaxJobs
     /\ \E payload \in ConcPayloads : PostRotateAndUpdate(payload)
  \/ ConcStep

SpecConc == InitConc /\ [][NextConc]_vars

----------------------------------------------------------------------------
(* Deployments that differ in R2_PUBLIC_BASE_URL and R2_BUCKET_NAME. Here
   the two settings are written character by character, so that a base may
   end in a slash, in several slashes, in the bucket name, or in a name
   that only has the bucket name as its tail. *)

UrlChars == {"a", "b", "/"}
PublicBases == UNION {[1..n -> UrlChars] : n \in 1..MaxBaseLen}
BucketNames == {<<"b">>, <<"a", "b">>}

InitUrl ==
  /\ revision \in {"r2", "order"}
  /\ \E B \in PublicBases, K \in BucketNames :
       env = [FullEnv EXCEPT !["R2_PUBLIC_BASE_URL"] = B,
                             !["R2_BUCKET_NAME"] = K]
  /\ now = 0
  /\ jobs = <<>>

NextUrl ==
  \/ /\ jobs = <<>>
     /\ \E payload \in ConcPayloads : PostRotateAndUpdate(payload)
  \/ ConcStep

SpecUrl == InitUrl /\ [][NextUrl]_vars

----------------------------------------------------------------------------
(* Several deliveries for one product, with a running clock: the jobs read
   Date.now() when their rotation succeeds, at the same millisecond or at
   later ones. *)

SameProductPayload ==
  [image_url |-> Some(<<"https://x/img.png">>), product_id |-> Some("42"),
   metafield_namespace |-> Some("custom"), metafield_key |-> Some("design_link"),
   rotation |-> None, order_id |-> None, line_item_id |-> None]

InitKeys ==
  /\ revision = "order"
  /\ env = FullEnv
  /\ now = 0
  /\ jobs = <<>>

NextKeys ==
  \/ /\ Len(jobs) < MaxJobs
     /\ PostRotateAndUpdate(SameProductPayload)
  \/ ConcStep

SpecKeys == InitKeys /\ [][NextKeys]_vars

----------------------------------------------------------------------------
(* Reading a job's log *)

CountOp(log, op) == Cardinality({n \in DOMAIN log : log[n].op = op})

CountAttempts(log, outcome) ==
  Cardinality({n \in DOMAIN log :
                 log[n].op = "attempted" /\ log[n].outcome = outcome})

IsPrefix(s, t) == Len(s) <= Len(t) /\ SubSeq(t, 1, Len(s)) = s

NotRespond(e) == e.op # "respond"
\* what the workflow did, without the handler's response
WorkLog(log) == SelectSeq(log, NotRespond)

RECURSIVE SleptMs(_)
\* the total time the job has spent in completed waits
SleptMs(log) ==
  IF log = <<>> THEN 0
  ELSE (IF Head(log).op = "slept" THEN Head(log).ms ELSE 0) + SleptMs(Tail(log))

R2Vars ==
  {"R2_ACCESS_KEY_ID", "R2_SECRET_ACCESS_KEY", "R2_BUCKET_NAME", "R2_ENDPOINT",
   "R2_PUBLIC_BASE_URL"}
R2Configured == \A v \in R2Vars : env[v] # <<>>

----------------------------------------------------------------------------
(* Claims *)

\* what a job whose attempts all fail does, from the first to the last step
ExhaustedLog(url) ==
  <<EvSlept(180000), EvFetch(url), EvAttempt("failed"),
    EvSlept(60000), EvFetch(url), EvAttempt("failed"),
    EvSlept(60000), EvFetch(url), EvAttempt("failed"),
    EvSlept(60000), EvFetch(url), EvAttempt("failed")>>

\* C1: a job whose fetch-and-rotate attempt fails every time makes exactly 4
\* image fetches with a 1-minute wait between consecutive attempts (3 waits,
\* none after the 4th failure) and is then abandoned with no storage upload,
\* no metafield mutation and no order-edit call: as long as no attempt has
\* succeeded, what the job has done is a prefix of 3-minute wait, fetch,
\* (1-minute wait, fetch) x 3, and the job ends exactly at the 4th failure.
C1_AlwaysFailingJob ==
  \A i \in DOMAIN jobs :
    LET job == jobs[i]
        work == WorkLog(job.log)
    IN  (CountAttempts(job.log, "ok") = 0 /\ work # <<>>) =>
          /\ IsPrefix(work, ExhaustedLog(job.payload.image_url[1]))
          /\ (job.pc = "ended") <=> (Len(work) = 12)

C1_Witness ==
  \E i \in DOMAIN jobs :
    /\ jobs[i].pc = "ended"
    /\ CountAttempts(jobs[i].log, "failed") = 4
    /\ CountOp(jobs[i].log, "fetch") = 4

\* C2: if the fetch-and-rotate attempt first succeeds on attempt k, then k
\* is in 1..4, exactly k-1 failed attempts and one successful attempt are
\* observed, no image fetch follows the success, and the workflow goes on to
\* the storage step: the put is the next thing it does (with an R2 variable
\* unset, uploadToR2 throws before sending and the job ends; the base
\* revision's storage step is the placeholder that keeps the original URL).
C2_SuccessOnAttemptK ==
  \A i \in DOMAIN jobs :
    LET job == jobs[i]
        log == job.log
    IN  \A n \in DOMAIN log :
          (log[n].op = "attempted" /\ log[n].outcome = "ok") =>
            LET k == CountOp(SubSeq(log, 1, n), "fetch")
            IN  /\ k \in 1..4
                /\ CountAttempts(log, "failed") = k - 1
                /\ CountAttempts(SubSeq(log, 1, n), "failed") = k - 1
                /\ CountAttempts(log, "ok") = 1
                /\ CountOp(log, "fetch") = k
                /\ IF ~HasStorage
                   THEN /\ job.finalImageUrl = job.payload.image_url
                        /\ Len(log) > n /\ log[n + 1].op = "metafieldsSet"
                   ELSE IF R2Configured
                   THEN Len(log) > n /\ log[n + 1].op = "put"
                   ELSE Len(log) = n /\ job.pc = "ended" /\ job.outcome = "error"

C2_Witness ==
  \E i \in DOMAIN jobs :
    /\ HasStorage
    /\ CountAttempts(jobs[i].log, "failed") = 3
    /\ CountAttempts(jobs[i].log, "ok") = 1
    /\ CountOp(jobs[i].log, "put") = 1

\* a required field that is absent from the body
Absent(payload) ==
  \/ payload.image_url = None
  \/ payload.product_id = None
  \/ payload.metafield_namespace = None
  \/ payload.metafield_key = None

\* C3: for a body in which any of image_url, product_id, metafield_namespace
\* or metafield_key is missing, the workflow makes no outbound call and no
\* wait, and the request is still answered with HTTP 200 {status: "accepted"}:
\* all that ever happens for it is that response.
C3_MissingFieldNoCalls ==
  \A i \in DOMAIN jobs :
    Absent(jobs[i].payload) => jobs[i].log = <<EvRespond(200, "accepted")>>

C3_Witness ==
  \E i \in DOMAIN jobs :
    /\ jobs[i].payload.metafield_key = None
    /\ jobs[i].payload.image_url # None
    /\ jobs[i].payload.product_id # None
    /\ jobs[i].payload.metafield_namespace # None
    /\ ~MissingShopifyEnv
    /\ jobs[i].pc = "ended"
    /\ jobs[i].log = <<EvRespond(200, "accepted")>>

\* C4: whenever rotation succeeded and the storage step returned URL U, the
\* metafieldsSet mutation is invoked with ownerId gid://shopify/Product/
\* {product_id}, the job's metafield_namespace and metafield_key, and value
\* U: the URL uploadToR2 returned for the object it has just put (it ends
\* with that object's key), and not the original image URL.
C4_MetafieldSetToStoredUrl ==
  \A i \in DOMAIN jobs :
    LET job == jobs[i]
        log == job.log
    IN  \A n \in DOMAIN log :
          log[n].op = "metafieldsSet" =>
            LET v == log[n].variables
            IN  /\ v.ownerId = <<"gid://shopify/Product/", job.payload.product_id[1]>>
                /\ v.namespace = job.payload.metafield_namespace[1]
                /\ v.key = job.payload.metafield_key[1]
                /\ HasStorage =>
                     /\ n > 2
                     /\ log[n - 2].op = "put"
                     /\ log[n - 1] = EvStored("ok")
                     /\ job.finalImageUrl = Some(v.value)
                     /\ EndsWith(v.value, <<"/">> \o log[n - 2].key)
                     /\ v.value # job.payload.image_url[1]

C4_Witness ==
  \E i \in DOMAIN jobs :
    /\ HasStorage
    /\ CountOp(jobs[i].log, "metafieldsSet") = 1
    /\ CountOp(jobs[i].log, "put") = 1

\* a metafieldsSet, or order-edit, call whose answer carries a non-empty
\* userErrors list
AnsweredWithUserErrors(log, n) ==
  /\ n < Len(log)
  /\ log[n + 1].op = "answer"
  /\ log[n + 1].r.net
  /\ log[n + 1].r.body = "userErrors"

\* C5: if the metafieldsSet response contains a non-empty user-error list,
\* the workflow halts and issues no further outbound call: no orderEditBegin,
\* orderEditSetLineItemProperties or orderEditCommit, even when order_id and
\* line_item_id are present in the job.
C5_MetafieldUserErrorsHalt ==
  \A i \in DOMAIN jobs :
    LET job == jobs[i]
        log == job.log
    IN  \A n \in DOMAIN log :
          (log[n].op = "metafieldsSet" /\ AnsweredWithUserErrors(log, n)) =>
            /\ Len(log) = n + 1
            /\ job.pc = "ended"
            /\ job.outcome # "done"

C5_Witness ==
  \E i \in DOMAIN jobs :
    /\ revision = "order"
    /\ jobs[i].payload.order_id # None
    /\ jobs[i].payload.line_item_id # None
    /\ \E n \in DOMAIN jobs[i].log :
         /\ jobs[i].log[n].op = "metafieldsSet"
         /\ AnsweredWithUserErrors(jobs[i].log, n)

OrderEditOps ==
  {"orderEditBegin", "orderEditSetLineItemProperties", "orderEditCommit"}
IsOrderEditCall(e) == e.op \in OrderEditOps
\* the names of the order-edit calls the job has issued, in order
OrderEditCalls(log) ==
  LET calls == SelectSeq(log, IsOrderEditCall)
  IN  [n \in DOMAIN calls |-> calls[n].op]

\* call n was answered with no error of any kind
AnsweredClean(log, n) ==
  /\ n < Len(log)
  /\ log[n + 1].op = "answer"
  /\ log[n + 1].r.net
  /\ log[n + 1].r.body = "clean"

\* C6: the order-edit transaction issues its calls in the fixed order
\* orderEditBegin, orderEditSetLineItemProperties, orderEditCommit; a
\* user-error returned at any step aborts all remaining steps, so that
\* orderEditCommit is never issued unless both orderEditBegin and
\* orderEditSetLineItemProperties returned with an empty error list.
C6_OrderEditSequence ==
  \A i \in DOMAIN jobs :
    LET job == jobs[i]
        log == job.log
    IN  /\ IsPrefix(OrderEditCalls(log),
                    <<"orderEditBegin", "orderEditSetLineItemProperties",
                      "orderEditCommit">>)
        /\ \A n \in DOMAIN log :
             /\ (IsOrderEditCall(log[n]) /\ AnsweredWithUserErrors(log, n)) =>
                  (Len(log) = n + 1 /\ job.pc = "ended" /\ job.outcome # "done")
             /\ log[n].op = "orderEditSetLineItemProperties" =>
                  \E b \in 1..(n - 1) :
                    log[b].op = "orderEditBegin" /\ AnsweredClean(log, b)
             /\ log[n].op = "orderEditCommit" =>
                  \E b \in 1..(n - 1), s \in 1..(n - 1) :
                    /\ b < s
                    /\ log[b].op = "orderEditBegin" /\ AnsweredClean(log, b)
                    /\ log[s].op = "orderEditSetLineItemProperties"
                    /\ AnsweredClean(log, s)

C6_Witness ==
  \E i \in DOMAIN jobs :
    OrderEditCalls(jobs[i].log) =
      <<"orderEditBegin", "orderEditSetLineItemProperties", "orderEditCommit">>

\* C7: in every workflow execution that passes validation, the fixed
\* 3-minute wait completes before the first outbound call of any kind: the
\* first thing the workflow does is to complete a wait of 180000 ms, and
\* every outbound call has that wait before it.
C7_InitialWaitFirst ==
  \A i \in DOMAIN jobs :
    LET log == jobs[i].log
        work == WorkLog(log)
    IN  /\ work # <<>> => Head(work) = EvSlept(180000)
        /\ \A n \in DOMAIN log :
             IsOutbound(log[n]) =>
               \E m \in 1..(n - 1) : log[m] = EvSlept(180000)

C7_Witness ==
  \E i \in DOMAIN jobs :
    /\ CountOp(jobs[i].log, "fetch") = 1
    /\ CountOp(jobs[i].log, "slept") = 1

Min(a, b) == IF a < b THEN a ELSE b

\* C8: when every outbound call succeeds on its first try, the workflow
\* waits 180 s in total, with no retry wait and exactly one image fetch; in
\* general a workflow that has ended has waited 180 s plus 60 s for each
\* failed fetch-and-rotate attempt other than a 4th one, and no workflow ever
\* waits more than 360 s.
C8_TotalWait ==
  \A i \in DOMAIN jobs :
    LET job == jobs[i]
        log == job.log
        failed == CountAttempts(log, "failed")
    IN  /\ SleptMs(log) <= 360000
        /\ (job.pc = "ended" /\ WorkLog(log) # <<>>) =>
             SleptMs(log) = 180000 + 60000 * Min(failed, 3)
        /\ (job.outcome = "done" /\ failed = 0) =>
             /\ SleptMs(log) = 180000
             /\ CountOp(log, "slept") = 1
             /\ CountOp(log, "fetch") = 1

C8_Witness ==
  \E i \in DOMAIN jobs :
    /\ jobs[i].outcome = "done"
    /\ CountAttempts(jobs[i].log, "failed") = 0
    /\ CountOp(jobs[i].log, "orderEditCommit") = 1
    /\ SleptMs(jobs[i].log) = 180000

\* C9: the handler sends its acknowledgment without awaiting the workflow:
\* the response is the first thing logged for the request, before any wait
\* completes and before any outbound call, and whatever the workflow does
\* later, it stays the only response.
C9_RespondedBeforeWork ==
  \A i \in DOMAIN jobs :
    LET log == jobs[i].log
    IN  /\ log # <<>>
        /\ log[1].op = "respond"
        /\ CountOp(log, "respond") = 1
        /\ \A n \in DOMAIN log : IsOutbound(log[n]) => n > 1

C9_Witness ==
  \E i \in DOMAIN jobs :
    /\ jobs[i].outcome = "done"
    /\ jobs[i].log[1].op = "respond"
    /\ CountOp(jobs[i].log, "metafieldsSet") = 1

\* C10: the response to POST /rotate-and-update is HTTP 200 {status:
\* "accepted"} whatever the body, the configuration and the outcome of the
\* workflow (success, validation skip, configuration abort, exhausted
\* retries, storage failure, Shopify failure): any two responses are equal.
C10_SameResponse ==
  \A i \in DOMAIN jobs, j \in DOMAIN jobs :
    \A n \in DOMAIN jobs[i].log, m \in DOMAIN jobs[j].log :
      (jobs[i].log[n].op = "respond" /\ jobs[j].log[m].op = "respond") =>
        /\ jobs[i].log[n] = jobs[j].log[m]
        /\ jobs[i].log[n].status = 200
        /\ jobs[i].log[n].body = "accepted"

C10_Witness ==
  \E i \in DOMAIN jobs :
    /\ jobs[i].pc = "ended"
    /\ jobs[i].outcome = "exhausted"
    /\ jobs[i].log[1] = EvRespond(200, "accepted")

\* C11: when the put-object request fails, the job stops there: the upload
\* was attempted exactly once, its rejection is the last thing the job did,
\* the job has ended without success, and it has made no metafieldsSet and
\* no order-edit call.
C11_PutFailureAborts ==
  \A i \in DOMAIN jobs :
    LET job == jobs[i]
        log == job.log
    IN  \A n \in DOMAIN log :
          log[n] = EvStored("rejected") =>
            /\ n = Len(log)
            /\ n > 1 /\ log[n - 1].op = "put"
            /\ CountOp(log, "put") = 1
            /\ \A k \in DOMAIN log : log[k].op \notin GqlOps
            /\ job.pc = "ended"
            /\ job.outcome = "error"

C11_Witness ==
  \E i \in DOMAIN jobs :
    /\ jobs[i].pc = "ended"
    /\ jobs[i].log[Len(jobs[i].log)] = EvStored("rejected")
    /\ HasOrderInfo(jobs[i].payload)
    /\ CountAttempts(jobs[i].log, "failed") = 2

\* C12: in a deployment with the storage step where any of the five R2
\* settings is absent, no job ever sends a put-object request, and none
\* makes a metafieldsSet or an order-edit call; a job whose rotation
\* succeeded ends in error right after it.
C12_NoR2ConfigNoUpload ==
  (HasStorage /\ ~R2Configured) =>
    \A i \in DOMAIN jobs :
      LET job == jobs[i]
          log == job.log
      IN  /\ \A n \in DOMAIN log : log[n].op \notin ({"put"} \cup GqlOps)
          /\ CountAttempts(log, "ok") = 1 =>
               /\ log[Len(log)] = EvAttempt("ok")
               /\ job.pc = "ended"
               /\ job.outcome = "error"

C12_Witness ==
  \E i \in DOMAIN jobs :
    /\ HasStorage
    /\ env["R2_PUBLIC_BASE_URL"] = None
    /\ \A v \in R2Vars \ {"R2_PUBLIC_BASE_URL"} : env[v] # None
    /\ CountAttempts(jobs[i].log, "ok") = 1
    /\ jobs[i].pc = "ended"

\* C14: in a deployment where the Shopify store domain or the access token
\* is absent, a job does nothing at all: no wait, no image fetch, no upload,
\* no Shopify request; the response to the request is the only event.
C14_NoShopifyConfigNoWork ==
  (env["SHOPIFY_STORE_DOMAIN"] = None \/ env["SHOPIFY_ACCESS_TOKEN"] = None) =>
    \A i \in DOMAIN jobs :
      /\ jobs[i].log = <<EvRespond(200, "accepted")>>
      /\ jobs[i].pc = "ended"

C14_Witness ==
  \E i \in DOMAIN jobs :
    /\ env["SHOPIFY_ACCESS_TOKEN"] = None
    /\ env["SHOPIFY_STORE_DOMAIN"] # None
    /\ ~Absent(jobs[i].payload)
    /\ jobs[i].outcome = "noconfig"
    /\ jobs[i].log = <<EvRespond(200, "accepted")>>

\* C13: in every revision, a Shopify request answered with a non-success
\* HTTP status ends the job at once: nothing follows the answer (no retry,
\* no further outbound call), and the job does not count as having
\* succeeded.
C13_HttpFailureAborts ==
  \A i \in DOMAIN jobs :
    LET job == jobs[i]
        log == job.log
    IN  \A n \in DOMAIN log :
          (/\ log[n].op = "answer"
           /\ log[n].r.net /\ ~log[n].r.ok) =>
            /\ n = Len(log)
            /\ job.pc = "ended"
            /\ job.outcome # "done"

\* metafieldsSet was issued and answered with a success status and a body
\* free of errors
MetafieldWritten(log) ==
  \E n \in DOMAIN log :
    /\ log[n].op = "metafieldsSet"
    /\ AnsweredClean(log, n)
    /\ log[n + 1].r.ok

\* C15: in the order-aware revision a job starts the order-edit transaction
\* exactly when its payload has both order_id and line_item_id and its
\* metafieldsSet was answered without error. A job lacking either id makes
\* no order-edit call, and once its metafield is written it has ended
\* successfully with that answer as its last event. The revisions without
\* the order-edit step never make an order-edit call.
C15_OrderEditIffBothIds ==
  \A i \in DOMAIN jobs :
    LET job == jobs[i]
        log == job.log
        both == job.payload.order_id # None /\ job.payload.line_item_id # None
    IN  IF revision = "order"
        THEN /\ OrderEditCalls(log) # <<>> <=> (both /\ MetafieldWritten(log))
             /\ (~both /\ MetafieldWritten(log)) =>
                  /\ job.pc = "ended"
                  /\ job.outcome = "done"
                  /\ log[Len(log)].op = "answer"
                  /\ log[Len(log) - 1].op = "metafieldsSet"
        ELSE OrderEditCalls(log) = <<>>

C15_Witness ==
  \E i \in DOMAIN jobs :
    /\ revision = "order"
    /\ jobs[i].payload.order_id # None
    /\ jobs[i].payload.line_item_id = None
    /\ MetafieldWritten(jobs[i].log)
    /\ jobs[i].outcome = "done"

\* a job with both ids whose metafield was written and whose transaction
\* has begun
C15_WitnessBoth ==
  \E i \in DOMAIN jobs :
    /\ revision = "order"
    /\ MetafieldWritten(jobs[i].log)
    /\ OrderEditCalls(jobs[i].log) = <<"orderEditBegin">>

\* the edges of a calculated order that stand for the given line item
MatchingEdges(calculatedOrder, line_item_id) ==
  {k \in DOMAIN calculatedOrder.edges :
     calculatedOrder.edges[k].orig =
       Some(<<"gid://shopify/LineItem/", line_item_id>>)}

\* the value the job wrote to the product metafield
MetafieldValues(log) ==
  {log[n].variables.value : n \in {k \in DOMAIN log : log[k].op = "metafieldsSet"}}

\* C19: orderEditSetLineItemProperties is issued right after the answer to
\* orderEditBegin, for the calculated order of that answer and for a
\* calculated line item of it whose originalLineItem id is
\* gid://shopify/LineItem/{line_item_id}; its one property carries the URL
\* the job wrote to the metafield; orderEditCommit is for the same calculated
\* order with notifyCustomer = false. When the answer to orderEditBegin has
\* no such line item, the job ends on it: no set-properties, no commit.
C19_OrderEditTargets ==
  \A i \in DOMAIN jobs :
    LET job == jobs[i]
        log == job.log
    IN  \A n \in DOMAIN log :
          /\ log[n].op = "orderEditSetLineItemProperties" =>
               /\ n > 2 /\ log[n - 2].op = "orderEditBegin"
               /\ log[n - 1].calculatedOrder # None
               /\ LET co == log[n - 1].calculatedOrder[1]
                      v == log[n].variables
                  IN  /\ v.id = co.id
                      /\ \E k \in MatchingEdges(co, job.payload.line_item_id[1]) :
                           co.edges[k].id = v.lineItemId
                      /\ Len(v.properties) = 1
                      /\ v.properties[1].name = "_tib_design_link_1"
                      /\ MetafieldValues(log) = {v.properties[1].value}
                      /\ job.finalImageUrl = Some(v.properties[1].value)
          /\ log[n].op = "orderEditCommit" =>
               /\ log[n].variables.notifyCustomer = FALSE
               /\ n > 4 /\ log[n - 3].calculatedOrder # None
               /\ log[n].variables.id = log[n - 3].calculatedOrder[1].id
          /\ (/\ log[n].op = "orderEditBegin"
              /\ n < Len(log)
              /\ log[n + 1].calculatedOrder # None
              /\ MatchingEdges(log[n + 1].calculatedOrder[1],
                               job.payload.line_item_id[1]) = {}) =>
               /\ Len(log) = n + 1
               /\ job.pc = "ended"
               /\ job.outcome = "error"

\* the matching line item is the second of two, and the edit is committed
C19_Witness ==
  \E i \in DOMAIN jobs :
    LET log == jobs[i].log
    IN  \E n \in DOMAIN log :
          /\ log[n].op = "orderEditBegin"
          /\ n + 3 <= Len(log)
          /\ log[n + 1].calculatedOrder # None
          /\ MatchingEdges(log[n + 1].calculatedOrder[1], "9001") = {2}
          /\ log[n + 2].op = "orderEditSetLineItemProperties"
          /\ \E k \in DOMAIN log : log[k].op = "orderEditCommit"

\* orderEditBegin answered without error and without a matching line item
C19_WitnessNoMatch ==
  \E i \in DOMAIN jobs :
    LET log == jobs[i].log
    IN  /\ Len(log) > 2
        /\ log[Len(log) - 1].op = "orderEditBegin"
        /\ log[Len(log)].r.net /\ log[Len(log)].r.ok
        /\ log[Len(log)].r.body = "clean"
        /\ log[Len(log)].calculatedOrder # None
        /\ Len(log[Len(log)].calculatedOrder[1].edges) = 2
        /\ MatchingEdges(log[Len(log)].calculatedOrder[1], "9001") = {}

\* C20: the angle the image was rotated by is the payload's rotation when
\* the payload has one, whatever integer it is, and 90 when it has none.
C20_AngleIsRotation ==
  \A i \in DOMAIN jobs :
    LET job == jobs[i]
    IN  job.rotatedImageBuffer # None =>
          job.rotatedImageBuffer[1].angle =
            IF job.payload.rotation = None THEN 90
            ELSE job.payload.rotation[1]

\* the place of a step in the workflow; the retry loop is one stage
Stage(pc) ==
  CASE pc = "start" -> 0
    [] pc = "sleep3" -> 1
    [] pc \in {"attempt", "sleep1"} -> 2
    [] pc = "put" -> 3
    [] pc = "metafield" -> 4
    [] pc = "begin" -> 5
    [] pc = "setprops" -> 6
    [] pc = "commit" -> 7
    [] pc = "ended" -> 8

\* a job never goes back to an earlier stage, never takes back an attempt,
\* and a job that has ended stays as it is
NoStepBack ==
  \A i \in DOMAIN jobs :
    /\ Stage(jobs'[i].pc) >= Stage(jobs[i].pc)
    /\ jobs'[i].attempt >= jobs[i].attempt
    /\ (jobs[i].pc = "attempt" /\ jobs'[i].pc = "attempt") =>
         jobs'[i].attempt > jobs[i].attempt
    /\ jobs[i].pc = "ended" => jobs'[i] = jobs[i]

\* at most 4 attempts, and every error after validation is caught: a job
\* is in one of the awaits of the workflow or has ended with a known outcome
BoundedAndHandled ==
  \A i \in DOMAIN jobs :
    /\ CountOp(jobs[i].log, "fetch") <= 4
    /\ CountOp(jobs[i].log, "attempted") <= 4
    /\ jobs[i].pc \in {"sleep3", "attempt", "sleep1", "put", "metafield",
                       "begin", "setprops", "commit", "ended"}
    /\ jobs[i].pc = "ended" <=>
         jobs[i].outcome \in {"skipped", "noconfig", "exhausted", "error",
                              "mferrors", "done"}

\* C18: when timers fire and every outbound call is answered or fails, every
\* job that was started reaches the end of the workflow; on the way it
\* makes at most 4 attempts, never returns to an earlier step, and is never
\* anywhere but in an await of the workflow or at its end.
C18_EveryJobEnds ==
  /\ (jobs # <<>>) ~> (\A i \in DOMAIN jobs : jobs[i].pc = "ended")
  /\ [][NoStepBack]_vars
  /\ []BoundedAndHandled

\* a job that used all four attempts and went through every step to the end
C18_Witness ==
  \E i \in DOMAIN jobs :
    /\ jobs[i].pc = "ended"
    /\ jobs[i].outcome = "done"
    /\ CountOp(jobs[i].log, "fetch") = 4
    /\ CountOp(jobs[i].log, "orderEditCommit") = 1

\* C16: every request has its own job, started once and answered once:
\* the job's history opens with its one response, the workflow of a valid
\* request is under way (in its initial wait, or past it) however many times
\* the same body was delivered before, it goes through the initial wait at
\* most once, and a job that succeeded did its own rotation, its own upload
\* and its own metafield write, each exactly once.
C16_OneJobPerRequest ==
  \A i \in DOMAIN jobs :
    LET job == jobs[i]
        log == job.log
    IN  /\ log # <<>> /\ log[1] = EvRespond(200, "accepted")
        /\ CountOp(log, "respond") = 1
        /\ ~Absent(job.payload) =>
             \/ job.pc = "sleep3" /\ Len(log) = 1
             \/ Len(log) > 1 /\ log[2] = EvSlept(180000)
        /\ Cardinality({n \in DOMAIN log : log[n] = EvSlept(180000)}) <= 1
        /\ job.outcome = "done" =>
             /\ CountAttempts(log, "ok") = 1
             /\ CountOp(log, "put") = 1
             /\ Cardinality({n \in DOMAIN log : log[n] = EvStored("ok")}) = 1
             /\ CountOp(log, "metafieldsSet") = 1

\* the same body delivered twice, and both jobs went through to the end
C16_Witness ==
  \E i, j \in DOMAIN jobs :
    /\ i # j
    /\ jobs[i].payload = jobs[j].payload
    /\ jobs[i].outcome = "done"
    /\ jobs[j].outcome = "done"

\* a step is the step of one job: it leaves every other job as it was
OneJobMoves ==
  \A i \in DOMAIN jobs :
    jobs'[i] # jobs[i] => \A j \in DOMAIN jobs \ {i} : jobs'[j] = jobs[j]

\* what a job holds follows from its own payload and its own history
OwnState ==
  \A i \in DOMAIN jobs :
    LET job == jobs[i]
        log == job.log
        fetches == CountOp(log, "fetch")
    IN  /\ job.attempt =
             IF job.outcome = "exhausted" THEN fetches + 1 ELSE fetches
        /\ fetches = CountOp(log, "attempted")
                       + (IF job.pc = "attempt" THEN 1 ELSE 0)
        /\ fetches <= CountAttempts(log, "failed") + 1
        /\ job.rotatedImageBuffer # None <=> CountAttempts(log, "ok") = 1
        /\ \A n \in DOMAIN log :
             /\ log[n].op = "fetch" => log[n].url = job.payload.image_url[1]
             /\ log[n].op = "put" =>
                  /\ job.key = Some(log[n].key)
                  /\ log[n].key[4] = job.payload.product_id[1]
             /\ log[n].op = "metafieldsSet" =>
                  /\ log[n].variables.ownerId =
                       <<"gid://shopify/Product/", job.payload.product_id[1]>>
                  /\ job.finalImageUrl = Some(log[n].variables.value)
                  /\ job.key # None
                  /\ SubSeq(log[n].variables.value,
                            Len(log[n].variables.value) - Len(job.key[1]) + 1,
                            Len(log[n].variables.value)) = job.key[1]

\* C17: jobs in flight share nothing that changes. Under every interleaving
\* a step changes one job only, and each job's attempt counter, rotated
\* buffer, object key, stored URL and calls follow from its own payload and
\* its own history: it fetches its own image once more only after a failure
\* of its own, whatever the other jobs went through.
C17_NoSharedState ==
  /\ [][OneJobMoves]_vars
  /\ []OwnState

\* one job failed three times and retried while another, for a different
\* body, succeeded at its first attempt
C17_Witness ==
  \E i, j \in DOMAIN jobs :
    /\ jobs[i].payload # jobs[j].payload
    /\ CountAttempts(jobs[i].log, "failed") = 3
    /\ CountOp(jobs[i].log, "fetch") = 4
    /\ jobs[j].outcome = "done"
    /\ CountOp(jobs[j].log, "fetch") = 1

\* B with one trailing slash removed
WithoutOneSlash(B) ==
  IF B[Len(B)] = "/" THEN [k \in 1..(Len(B) - 1) |-> B[k]] ELSE B

\* S ends with /K
EndsWithBucket(S, K) ==
  /\ Len(S) >= Len(K) + 1
  /\ S[Len(S) - Len(K)] = "/"
  /\ \A k \in 1..Len(K) : S[Len(S) - Len(K) + k] = K[k]

\* C21: for every public base URL B and bucket name K of the deployment,
\* a job whose put-object succeeded stored its object under rotated/F in
\* bucket K, and the URL it goes on with is B less one trailing slash,
\* then /K unless that already ends with /K, then /rotated/F.
C21_PublicUrl ==
  \A i \in DOMAIN jobs :
    LET job == jobs[i]
        log == job.log
        B == env["R2_PUBLIC_BASE_URL"]
        K == env["R2_BUCKET_NAME"]
        S == WithoutOneSlash(B)
    IN  \A n \in DOMAIN log :
          log[n] = EvStored("ok") =>
            LET put == log[n - 1]
                F == SubSeq(put.key, 3, Len(put.key))
            IN  /\ put.op = "put"
                /\ put.bucket = K
                /\ put.key = <<"rotated", "/">> \o F
                /\ F = <<"rotated-", job.payload.product_id[1], "-",
                         F[4], ".png">>
                /\ job.finalImageUrl =
                     Some(S \o (IF EndsWithBucket(S, K) THEN <<>>
                                ELSE <<"/">> \o K)
                            \o <<"/", "rotated", "/">> \o F)

\* the base already ends with the bucket segment and a slash after it
C21_Witness ==
  \E i \in DOMAIN jobs :
    /\ env["R2_PUBLIC_BASE_URL"] = <<"/", "b", "/">>
    /\ env["R2_BUCKET_NAME"] = <<"b">>
    /\ \E n \in DOMAIN jobs[i].log : jobs[i].log[n] = EvStored("ok")
    /\ jobs[i].finalImageUrl # None
    /\ SubSeq(jobs[i].finalImageUrl[1], 1, 4) = <<"/", "b", "/", "rotated">>

\* the base ends with two slashes, of which one stays
C21_WitnessTwoSlashes ==
  \E i \in DOMAIN jobs :
    /\ env["R2_PUBLIC_BASE_URL"] = <<"a", "/", "/">>
    /\ env["R2_BUCKET_NAME"] = <<"a", "b">>
    /\ jobs[i].finalImageUrl # None
    /\ SubSeq(jobs[i].finalImageUrl[1], 1, 6) = <<"a", "/", "/", "a", "b", "/">>

\* the calls that change something outside the service
EffectOps ==
  {"put", "metafieldsSet", "orderEditBegin", "orderEditSetLineItemProperties",
   "orderEditCommit"}

\* C22: whatever the number of failed attempts, a job issues each of
\* put-object, metafieldsSet, orderEditBegin, orderEditSetLineItemProperties
\* and orderEditCommit at most once; only the image fetch is repeated, and
\* every one of these calls comes after the last fetch.
C22_EffectsAtMostOnce ==
  \A i \in DOMAIN jobs :
    LET log == jobs[i].log
    IN  /\ \A op \in EffectOps : CountOp(log, op) <= 1
        /\ \A n, k \in DOMAIN log :
             (log[n].op \in EffectOps /\ log[k].op = "fetch") => k < n

\* three attempts failed, the fourth did not, and every later call was made
C22_Witness ==
  \E i \in DOMAIN jobs :
    /\ CountAttempts(jobs[i].log, "failed") = 3
    /\ \A op \in EffectOps : CountOp(jobs[i].log, op) = 1

\* C24: nothing that was done is undone. A job that ended in failure after
\* its metafieldsSet was issued made that one metafieldsSet call and no
\* other, with the URL it still holds; the failing answer is its last event,
\* so no call follows it; and it made at most one put and no call but the
\* fetches, the put, metafieldsSet and the three order-edit calls: no
\* delete, no second write.
C24_NoCompensation ==
  \A i \in DOMAIN jobs :
    LET job == jobs[i]
        log == job.log
    IN  /\ \A n \in DOMAIN log :
             log[n].op \in {"respond", "slept", "fetch", "attempted", "put",
                            "stored", "answer"} \cup GqlOps
        /\ (/\ CountOp(log, "metafieldsSet") >= 1
            /\ job.pc = "ended"
            /\ job.outcome # "done") =>
              /\ log[Len(log)].op = "answer"
              /\ log[Len(log) - 1].op \in GqlOps
              /\ CountOp(log, "metafieldsSet") = 1
              /\ CountOp(log, "put") = (IF HasStorage THEN 1 ELSE 0)
              /\ MetafieldValues(log) = {job.finalImageUrl[1]}

\* the metafield was written and the commit of the order edit failed
C24_Witness ==
  \E i \in DOMAIN jobs :
    LET log == jobs[i].log
    IN  /\ MetafieldWritten(log)
        /\ jobs[i].pc = "ended"
        /\ jobs[i].outcome = "error"
        /\ log[Len(log) - 1].op = "orderEditCommit"

\* the upload succeeded and metafieldsSet failed
C24_WitnessMetafield ==
  \E i \in DOMAIN jobs :
    LET log == jobs[i].log
    IN  /\ \E n \in DOMAIN log : log[n] = EvStored("ok")
        /\ jobs[i].pc = "ended"
        /\ jobs[i].outcome # "done"
        /\ log[Len(log) - 1].op = "metafieldsSet"

\* C23: two different jobs never upload under the same object key, also
\* when both are for the same product_id.
C23_DistinctKeys ==
  \A i, j \in DOMAIN jobs :
    (i # j /\ jobs[i].key # None /\ jobs[j].key # None) =>
      jobs[i].key # jobs[j].key

====
